---- MODULE Spec2Model ----
(***************************************************************************)
(* ping-rs: ICMP echo engine.  One call (send_ping or send_ping_async) is  *)
(* modelled per behaviour, on one of the code paths of the repository:     *)
(*   raw_sync     linux_ping/mod.rs send_ping                              *)
(*   raw_inline   linux_ping/mod.rs send_ping_async + PingFuture (mod.rs)  *)
(*   raw_poller   send_ping_async + linux_ping/ping_future.rs (worker)     *)
(*   native_sync  windows_ping.rs send_ping                                *)
(*   native_async windows_ping.rs send_ping_async + ping_future.rs         *)
(* A second specification, CodecSpec, applies the encoding functions       *)
(* (make_data, set_request_data, the IcmpEchoHeader accessors) on their    *)
(* own to payloads of every length.                                        *)
(* The operating system (arrival of datagrams, failing system calls, the   *)
(* completion of the native echo, the thread-pool callback) is the         *)
(* environment and is nondeterministic.                                    *)
(***************************************************************************)
EXTENDS Integers, Sequences, FiniteSets, TLC

VARIABLES
  variant, family, timeout, data, dataLen, options,   \* the call's inputs
  pc, ret,                                            \* the caller: position, returned value
  sock, nonblocking, sockets, sent, sequence, payload, inbox, lastRecv,  \* PingContext and its socket
  fwaker,                                             \* PingFuture.waker (mod.rs)
  result, waker, started, wpc, arc,                   \* PollerContext, worker threads, Arc count
  ppc, cxw, polls, lastPoll, woken, dropped, writes,  \* polling side and observers
  handle, ping_event, event_registration, nwaker,     \* FutureEchoReplyAsyncState
  reply_buffer,                                       \* status field of the native reply buffer
  outstanding, signaled, cbFired, acq, rel, released, \* native echo, wait event, resource counts
  before, op,                                         \* the packet before the last encoding step, that step
  issued,                                             \* sequence numbers written by successive ping() calls
  ip_options                                          \* the IP_OPTION_INFORMATION built by echo

inputs  == <<variant, family, timeout, data, dataLen, options>>
caller  == <<pc, ret>>
ctxvars == <<sock, nonblocking, sockets, sent, sequence, payload, inbox, lastRecv>>
pollerv == <<result, waker, started, wpc, arc>>
pollv   == <<ppc, cxw, polls, lastPoll, woken, dropped, writes>>
nativev == <<handle, ping_event, event_registration, nwaker, reply_buffer, outstanding, signaled, cbFired, acq, rel, released>>
codecv  == <<before, op, issued, ip_options>>
vars    == <<inputs, caller, ctxvars, fwaker, pollerv, pollv, nativev, codecv>>

(* lastRecv is the outcome of the last recv_from on the socket.            *)
(* woken is the set of wakers whose task has a wake-up it has not yet      *)
(* consumed: wake() adds the waker, the start of a poll made with a waker  *)
(* removes it (that poll is the reaction to the wake-up).  writes counts   *)
(* released lists the native resources in the order they were released.   *)
(* the stores into PollerContext.result; acq and rel count, per native     *)
(* resource, the successful acquisitions and the releases.                 *)

----------------------------------------------------------------------------
(* Bounds *)
MaxTimeout   == 1      \* timeouts 0..MaxTimeout (milliseconds)
MaxPolls     == 3      \* polls of one future by the executor
MaxDatagrams == 2      \* datagrams that arrive on the socket during one call
MaxPings     == 4      \* consecutive ping() calls on one PingContext

(* Program constants *)
TOKEN_SIZE       == 24
ICMP_HEADER_SIZE == 16
MAX_BUFFER_SIZE  == 65500
IP_STATUS_BASE   == 11000
BadHeader        == 11042
DONT_FRAGMENT_FLAG == 2
ERROR_IO_PENDING == 997

RawVariants    == {"raw_sync", "raw_inline", "raw_poller"}
NativeVariants == {"native_sync", "native_async"}
Variants       == RawVariants \cup NativeVariants
Families       == {"v4", "v6"}
Wakers         == {"w1", "w2"}
Workers        == 1..MaxPolls

(* Result<PingReply, PingError> and Option<..> of it: one record shape *)
Res(tag, code, msg) == [tag |-> tag, code |-> code, msg |-> msg]
NoneR               == Res("None", 0, "")
OkReply             == Res("Ok", 0, "")
IoPending           == Res("IoPending", 0, "")
Panicked            == Res("Panic", 0, "")

NoOptions == [some |-> FALSE, ttl |-> 0, dont_fragment |-> FALSE]
Options   == {NoOptions, [some |-> TRUE, ttl |-> 64, dont_fragment |-> TRUE]}

Payloads  == {<<>>, <<1, 2, 3, 4>>, [i \in 1..TOKEN_SIZE |-> 255], [i \in 1..(TOKEN_SIZE + 1) |-> 0]}
NativeLens == {4, MAX_BUFFER_SIZE, MAX_BUFFER_SIZE + 1}

(* Datagrams the socket may deliver: the header's type and code, its       *)
(* identifier and sequence number, and the number of bytes recv_from       *)
(* reports.  The fourth one is cut off after the checksum/ident/sequence   *)
(* words: its timestamp bytes never arrived.  The fifth is an echo reply   *)
(* to a request of another sender.  The identifier 4660 is ProcessId, the  *)
(* sequence number 1 the one of the only request a context sends.          *)
Datagrams ==
  {[type |-> 0,   code |-> 0, size |-> 16, ident |-> 4660, seq |-> 1],
   [type |-> 129, code |-> 0, size |-> 16, ident |-> 4660, seq |-> 1],
   [type |-> 0,   code |-> 1, size |-> 16, ident |-> 4660, seq |-> 1],
   [type |-> 0,   code |-> 0, size |-> 8,  ident |-> 4660, seq |-> 1],
   [type |-> 0,   code |-> 0, size |-> 16, ident |-> 4661, seq |-> 1]}
NoDatagram == [type |-> 255, code |-> 255, size |-> 0, ident |-> 0, seq |-> 0]
NoRecv     == [kind |-> "none", d |-> NoDatagram]
NoOp       == [name |-> "none", v |-> 0, ts |-> <<>>]
NoIpOptions == [Ttl |-> 0, Flags |-> 0, built |-> FALSE]

----------------------------------------------------------------------------
(* Pure functions of the raw-socket path *)

ECHO_REQUEST_TYPE(P) == IF P = "v4" THEN 8 ELSE 128
ECHO_REQUEST_CODE(P) == 0
ECHO_REPLY_TYPE(P)   == IF P = "v4" THEN 0 ELSE 129
ECHO_REPLY_CODE(P)   == 0

validate_timeout_lt(t) ==
  IF t < 0 THEN Res("BadParameter", 0, "timeout") ELSE OkReply

validate_timeout(t) ==
  IF t <= 0 THEN Res("BadParameter", 0, "timeout") ELSE OkReply

(* impl From<io::Error> for PingError: would-block is the pending signal *)
From_io_Error(kind) ==
  IF kind = "WouldBlock" THEN IoPending ELSE Res("OsError", 5, "io")

(* the u32 sum of the 16-bit big-endian words; with at most 20 words of a   *)
(* 40-byte buffer the wrapping_add never wraps                             *)
RECURSIVE WordSum(_, _)
WordSum(buffer, i) ==
  IF i > Len(buffer) THEN 0
  ELSE LET part == buffer[i] * 256 + (IF i + 1 <= Len(buffer) THEN buffer[i + 1] ELSE 0)
       IN  part + WordSum(buffer, i + 2)

RECURSIVE Fold(_)
Fold(sum) == IF sum \div 65536 > 0 THEN Fold((sum % 65536) + (sum \div 65536)) ELSE sum

(* simple_property: the u16 fields of IcmpEchoHeader are kept in network     *)
(* order, to_be() on store and from_be() on load: high byte first in memory *)
set_u16_le(buffer, off, v) ==
  [buffer EXCEPT ![off + 1] = v % 256, ![off + 2] = v \div 256]

set_u16(buffer, off, v) ==
  [buffer EXCEPT ![off + 1] = v \div 256, ![off + 2] = v % 256]

get_u16(buffer, off) == buffer[off + 1] * 256 + buffer[off + 2]

checksum(buffer) == get_u16(buffer, 2)
ident(buffer)    == get_u16(buffer, 4)
seq(buffer)      == get_u16(buffer, 6)
timestamp(buffer) == [i \in 1..8 |-> buffer[8 + i]]

set_checksum(buffer, v) == set_u16(buffer, 2, v)
set_ident(buffer, v)    == set_u16(buffer, 4, v)
set_seq(buffer, v)      == set_u16(buffer, 6, v)
set_timestamp_shifted(buffer, ts) ==
  [i \in 1..Len(buffer) |-> IF i > 9 /\ i <= 17 THEN ts[i - 9] ELSE buffer[i]]

set_timestamp(buffer, ts) ==
  [i \in 1..Len(buffer) |-> IF i > 8 /\ i <= 16 THEN ts[i - 8] ELSE buffer[i]]

write_checksum(buffer) ==
  set_checksum(buffer, 65535 - (Fold(WordSum(buffer, 1)) % 65536))

make_data_ge(P, d) ==
  IF Len(d) >= TOKEN_SIZE
  THEN [ok |-> FALSE, err |-> Res("DataSizeTooBig", TOKEN_SIZE, ""), buf |-> <<>>]
  ELSE LET copied == [i \in 1..(ICMP_HEADER_SIZE + Len(d)) |->
                        IF i > ICMP_HEADER_SIZE THEN d[i - ICMP_HEADER_SIZE] ELSE 0]
           typed  == [copied EXCEPT ![1] = ECHO_REQUEST_TYPE(P), ![2] = ECHO_REQUEST_CODE(P)]
       IN  [ok |-> TRUE, err |-> NoneR, buf |-> write_checksum(typed)]

make_data(P, d) ==
  IF Len(d) > TOKEN_SIZE
  THEN [ok |-> FALSE, err |-> Res("DataSizeTooBig", TOKEN_SIZE, ""), buf |-> <<>>]
  ELSE LET copied == [i \in 1..(ICMP_HEADER_SIZE + Len(d)) |->
                        IF i > ICMP_HEADER_SIZE THEN d[i - ICMP_HEADER_SIZE] ELSE 0]
           typed  == [copied EXCEPT ![1] = ECHO_REQUEST_TYPE(P), ![2] = ECHO_REQUEST_CODE(P)]
       IN  [ok |-> TRUE, err |-> NoneR, buf |-> write_checksum(typed)]

ProcessId  == 4660
Timestamps == {<<65, 217, 0, 0, 0, 0, 0, 1>>}

set_request_data(buffer, id, sequence_no, ts) ==
  LET a == set_ident(buffer, id)
      b == set_seq(a, sequence_no)
      c == set_timestamp(b, ts)
  IN  write_checksum(c)

(* linux_ping/v4.rs: the outer IP header in front of a v4 reply.  reply is *)
(* the received bytes, 1-based: byte 0 of the buffer is reply[1].          *)
ICMP_REPLY_HEADER_SIZE == 20
ICMP_PROTOCOL          == 1
version(reply)     == reply[1] \div 16      \* (self.version & 0xF0) >> 4
header_size(reply) == reply[1] % 16         \* (self.version & 0x0F) as usize
protocol(reply)    == reply[10]

(* P::get_reply_header(reply): the outcome and the offset in reply at      *)
(* which the returned echo header starts                                   *)
get_reply_header(P, reply) ==
  IF P = "v4"
  THEN IF \/ Len(reply) < ICMP_REPLY_HEADER_SIZE + ICMP_HEADER_SIZE
          \/ version(reply) # 4
          \/ Len(reply) < header_size(reply)
          \/ protocol(reply) # ICMP_PROTOCOL
       THEN [res |-> Res("IpError", BadHeader, ""), offset |-> 0]
       ELSE [res |-> OkReply, offset |-> ICMP_REPLY_HEADER_SIZE]
  ELSE IF Len(reply) < ICMP_HEADER_SIZE
       THEN [res |-> Res("IpError", BadHeader, ""), offset |-> 0]
       ELSE [res |-> OkReply, offset |-> 0]

(* The bytes of the receive buffer wait_reply reads for a datagram d: the  *)
(* type and code, and the timestamp when both match                        *)
wait_reply_reads(P, d) ==
  IF d.type # ECHO_REPLY_TYPE(P) \/ d.code # ECHO_REPLY_CODE(P)
  THEN 2
  ELSE ICMP_HEADER_SIZE

(* wait_reply after recv_from: r is the outcome of the receive *)
wait_reply_and(P, r) ==
  IF r.kind # "data" THEN From_io_Error(r.kind)
  ELSE IF r.d.type # ECHO_REPLY_TYPE(P) /\ r.d.code # ECHO_REPLY_CODE(P)
       THEN Res("IpError", BadHeader, "")
       ELSE OkReply

wait_reply(P, r) ==
  IF r.kind # "data" THEN From_io_Error(r.kind)
  ELSE IF r.d.type # ECHO_REPLY_TYPE(P) \/ r.d.code # ECHO_REPLY_CODE(P)
       THEN Res("IpError", BadHeader, "")
       ELSE OkReply

----------------------------------------------------------------------------
(* Initial state: the inputs of the call are drawn, nothing is acquired *)

Idle ==
  /\ pc = "start" /\ ret = NoneR
  /\ sock = "none" /\ nonblocking = FALSE /\ sockets = 0 /\ sent = 0
  /\ sequence = 0 /\ payload = <<>> /\ inbox = <<>> /\ lastRecv = NoRecv
  /\ fwaker = "None"
  /\ result = NoneR /\ waker = "None" /\ started = FALSE
  /\ wpc = [i \in Workers |-> "unborn"] /\ arc = 0
  /\ ppc = "idle" /\ cxw = "None" /\ polls = 0 /\ lastPoll = "none"
  /\ woken = {} /\ dropped = FALSE /\ writes = 0
  /\ handle = "none" /\ ping_event = "invalid" /\ event_registration = "invalid"
  /\ nwaker = "None" /\ reply_buffer = 0 /\ outstanding = FALSE /\ signaled = FALSE /\ cbFired = FALSE
  /\ acq = [r \in {"icmp", "event", "wait"} |-> 0]
  /\ rel = [r \in {"icmp", "event", "wait"} |-> 0] /\ released = <<>>
  /\ before = <<>> /\ op = NoOp /\ issued = <<>> /\ ip_options = NoIpOptions

Init ==
  /\ variant \in Variants
  /\ family \in Families
  /\ timeout \in 0..MaxTimeout
  /\ options \in Options
  /\ data \in (IF variant \in RawVariants THEN Payloads ELSE {<<>>})
  /\ dataLen \in (IF variant \in RawVariants THEN {Len(data)} ELSE NativeLens)
  /\ Idle

----------------------------------------------------------------------------
(* Raw-socket path: linux_ping/mod.rs *)

(* What recv_from can yield now: the queued datagram, would-block (nothing *)
(* within the receive timeout / non-blocking), or another I/O error.       *)
RecvOutcomes ==
  (IF inbox # <<>> THEN {[kind |-> "data", d |-> Head(inbox)]}
                   ELSE {[kind |-> "WouldBlock", d |-> NoDatagram]})
  \cup {[kind |-> "Other", d |-> NoDatagram]}
AfterRecv(r) == IF r.kind = "data" THEN Tail(inbox) ELSE inbox

(* a datagram arrives on the open socket after the request went out *)
Arrive ==
  /\ variant \in RawVariants /\ sock = "open" /\ sent >= 1
  /\ Len(inbox) < MaxDatagrams
  /\ \E d \in Datagrams : inbox' = Append(inbox, d)
  /\ UNCHANGED <<inputs, codecv, caller, sock, nonblocking, sockets, sent, sequence, payload,
                 lastRecv, fwaker, pollerv, pollv, nativev>>

(* PingContext::new: validate, encode, create and configure the socket *)
PingContext_new ==
  /\ variant \in RawVariants /\ pc = "start"
  /\ LET t == validate_timeout(timeout)
         p == make_data(family, data)
     IN  IF t.tag # "Ok"
         THEN /\ ret' = t /\ pc' = "returned"
              /\ UNCHANGED <<sock, sockets, payload>>
         ELSE IF ~p.ok
         THEN /\ ret' = p.err /\ pc' = "returned"
              /\ UNCHANGED <<sock, sockets, payload>>
         ELSE \E created, configured \in BOOLEAN :
                IF ~created
                THEN /\ ret' = From_io_Error("Other") /\ pc' = "returned"
                     /\ UNCHANGED <<sock, sockets, payload>>
                ELSE IF ~configured      \* set_ttl or set_read_timeout fails: socket dropped
                THEN /\ ret' = From_io_Error("Other") /\ pc' = "returned"
                     /\ sock' = "closed" /\ sockets' = sockets + 1
                     /\ UNCHANGED payload
                ELSE /\ pc' = "have_ctx" /\ sock' = "open" /\ sockets' = sockets + 1
                     /\ payload' = p.buf
                     /\ UNCHANGED ret
  /\ UNCHANGED <<inputs, codecv, nonblocking, sent, sequence, inbox, lastRecv, fwaker, pollerv, pollv, nativev>>

(* a send_ping_async that goes on to ping() whether or not the switch worked *)
SetNonblocking_ignored ==
  /\ variant \in {"raw_inline", "raw_poller"} /\ pc = "have_ctx"
  /\ \E ok \in BOOLEAN : nonblocking' = ok
  /\ pc' = "nonblocking_set"
  /\ UNCHANGED <<inputs, codecv, ret, sock, sockets, sent, sequence, payload, inbox, lastRecv,
                 fwaker, pollerv, pollv, nativev>>

(* send_ping_async: context.socket.set_nonblocking(true)? *)
SetNonblocking ==
  /\ variant \in {"raw_inline", "raw_poller"} /\ pc = "have_ctx"
  /\ \E ok \in BOOLEAN :
       IF ok THEN /\ nonblocking' = TRUE /\ pc' = "nonblocking_set"
                  /\ UNCHANGED <<ret, sock>>
             ELSE /\ ret' = From_io_Error("Other") /\ pc' = "returned" /\ sock' = "closed"
                  /\ UNCHANGED nonblocking
  /\ UNCHANGED <<inputs, codecv, sockets, sent, sequence, payload, inbox, lastRecv, fwaker, pollerv, pollv, nativev>>

(* self.sequence += 1 on the u16 counter *)
next_sequence_same(s) == s

next_sequence(s) == (s + 1) % 65536

(* PingContext::ping, followed on the asynchronous path by the creation of the future *)
SendOutcomes == {"ok", "Other"} \cup (IF nonblocking THEN {"WouldBlock"} ELSE {})
PingContext_ping ==
  /\ \/ variant = "raw_sync" /\ pc = "have_ctx"
     \/ variant \in {"raw_inline", "raw_poller"} /\ pc = "nonblocking_set"
  /\ sequence' = next_sequence(sequence)
  /\ \E ts \in Timestamps : payload' = set_request_data(payload, ProcessId, sequence', ts)
  /\ sent' = sent + 1
  /\ \E o \in SendOutcomes :
       IF o = "ok"
       THEN /\ pc' = "sent" /\ UNCHANGED <<ret, sock>>
            /\ arc' = IF variant = "raw_poller" THEN 1 ELSE arc
       ELSE /\ ret' = From_io_Error(o) /\ pc' = "returned" /\ sock' = "closed"
            /\ UNCHANGED arc
  /\ UNCHANGED <<inputs, codecv, nonblocking, sockets, inbox, lastRecv, fwaker, result, waker, started, wpc,
                 pollv, nativev>>

(* send_ping: (context.wait_reply)(&mut context), then the context is dropped *)
SendPing_wait_reply ==
  /\ variant = "raw_sync" /\ pc = "sent"
  /\ \E r \in RecvOutcomes :
       /\ ret' = wait_reply(family, r)
       /\ inbox' = AfterRecv(r) /\ lastRecv' = r
  /\ pc' = "returned" /\ sock' = "closed"
  /\ UNCHANGED <<inputs, codecv, nonblocking, sockets, sent, sequence, payload, fwaker, pollerv,
                 pollv, nativev>>

(* PingFuture::poll of mod.rs: receive in the poll, store the waker on IoPending *)
InlinePoll ==
  /\ variant = "raw_inline" /\ pc = "sent" /\ polls < MaxPolls
  /\ polls' = polls + 1
  /\ \E w \in Wakers, r \in RecvOutcomes :
       LET reply == wait_reply(family, r) IN
       /\ inbox' = AfterRecv(r) /\ lastRecv' = r
       /\ IF reply = IoPending
          THEN /\ fwaker' = w /\ lastPoll' = "Pending" /\ woken' = woken \ {w}
               /\ UNCHANGED <<pc, ret, sock>>
          ELSE /\ lastPoll' = "Ready" /\ ret' = reply /\ pc' = "returned" /\ sock' = "closed"
               /\ UNCHANGED <<fwaker, woken>>
  /\ UNCHANGED <<inputs, codecv, nonblocking, sockets, sent, sequence, payload, pollerv,
                 ppc, cxw, dropped, writes, nativev>>

(* the caller drops the future of mod.rs before it completed *)
InlineDrop ==
  /\ variant = "raw_inline" /\ pc = "sent"
  /\ pc' = "dropped" /\ dropped' = TRUE /\ sock' = "closed"
  /\ UNCHANGED <<inputs, codecv, ret, nonblocking, sockets, sent, sequence, payload, inbox, lastRecv, fwaker,
                 pollerv, ppc, cxw, polls, lastPoll, woken, writes, nativev>>

----------------------------------------------------------------------------
(* Raw-socket path, completion bridge with a worker thread:                *)
(* linux_ping/ping_future.rs                                               *)

Active(i)   == wpc[i] \notin {"unborn", "done", "panicked"}
ActiveWorkers == {i \in Workers : Active(i)}
Unborn      == {i \in Workers : wpc[i] = "unborn"}
NextWorker  == CHOOSE i \in Unborn : \A j \in Unborn : i <= j

(* the Arc<PollerContext> loses one owner; the last owner closes the socket *)
ArcDrop ==
  /\ arc' = arc - 1
  /\ sock' = IF arc - 1 = 0 THEN "closed" ELSE sock

(* AtomicBool::compare_exchange(false, true): does the exchange succeed *)
compare_exchange_always(current, expected) == TRUE

compare_exchange(current, expected) == current = expected

(* PingFuture::poll: self.0.result.read().unwrap().clone() and the match on it *)
Poll_read ==
  /\ variant = "raw_poller" /\ pc = "sent" /\ ppc = "idle" /\ polls < MaxPolls
  /\ polls' = polls + 1
  /\ \E w \in Wakers :
       IF result # NoneR
       THEN /\ ret' = result /\ pc' = "returned" /\ lastPoll' = "Ready"
            /\ ArcDrop
            /\ UNCHANGED <<ppc, cxw, woken>>
       ELSE /\ ppc' = "set_waker" /\ cxw' = w /\ woken' = woken \ {w}
            /\ UNCHANGED <<pc, ret, lastPoll, arc, sock>>
  /\ UNCHANGED <<inputs, codecv, nonblocking, sockets, sent, sequence, payload, inbox, lastRecv, fwaker,
                 result, waker, started, wpc, dropped, writes, nativev>>

(* a poll that goes on to start_poller without having stored its waker *)
Poll_set_waker_skipped ==
  /\ variant = "raw_poller" /\ ppc = "set_waker"
  /\ waker' = waker /\ ppc' = "start_poller"
  /\ UNCHANGED <<inputs, codecv, caller, ctxvars, fwaker, result, started, wpc, arc,
                 cxw, polls, lastPoll, woken, dropped, writes, nativev>>

(* PingFuture::poll: *self.0.waker.write().unwrap() = Some(cx.waker().clone()) *)
Poll_set_waker ==
  /\ variant = "raw_poller" /\ ppc = "set_waker"
  /\ waker' = cxw /\ ppc' = "start_poller"
  /\ UNCHANGED <<inputs, codecv, caller, ctxvars, fwaker, result, started, wpc, arc,
                 cxw, polls, lastPoll, woken, dropped, writes, nativev>>

(* PingFuture::poll: self.start_poller(); Poll::Pending *)
Poll_start_poller ==
  /\ variant = "raw_poller" /\ ppc = "start_poller"
  /\ IF compare_exchange(started, FALSE) /\ Unborn # {}
     THEN /\ started' = TRUE
          /\ wpc' = [wpc EXCEPT ![NextWorker] = "setup"]
          /\ arc' = arc + 1
     ELSE UNCHANGED <<started, wpc, arc>>
  /\ ppc' = "idle" /\ lastPoll' = "Pending"
  /\ UNCHANGED <<inputs, codecv, caller, ctxvars, fwaker, result, waker,
                 cxw, polls, woken, dropped, writes, nativev>>

(* the caller drops the future before it completed *)
PollerDrop ==
  /\ variant = "raw_poller" /\ pc = "sent" /\ ppc = "idle"
  /\ pc' = "dropped" /\ dropped' = TRUE
  /\ ArcDrop
  /\ UNCHANGED <<inputs, codecv, ret, nonblocking, sockets, sent, sequence, payload, inbox, lastRecv, fwaker,
                 result, waker, started, wpc, ppc, cxw, polls, lastPoll, woken, writes, nativev>>

(* PollerContext::poll: mio::Poll::new()? and registry().register(..)? *)
Worker_setup(i) ==
  /\ wpc[i] = "setup"
  /\ \E ok \in BOOLEAN : wpc' = [wpc EXCEPT ![i] = IF ok THEN "wait" ELSE "err_store"]
  /\ UNCHANGED <<inputs, codecv, caller, ctxvars, fwaker, result, waker, started, arc, pollv, nativev>>

(* PollerContext::poll: poll.poll(&mut events, None)? returns with a readable event *)
Worker_wait_readable(i) ==
  /\ wpc[i] = "wait" /\ inbox # <<>>
  /\ wpc' = [wpc EXCEPT ![i] = "store"]
  /\ UNCHANGED <<inputs, codecv, caller, ctxvars, fwaker, result, waker, started, arc, pollv, nativev>>

(* PollerContext::poll: poll.poll(&mut events, None)? fails *)
Worker_wait_error(i) ==
  /\ wpc[i] = "wait"
  /\ wpc' = [wpc EXCEPT ![i] = "err_store"]
  /\ UNCHANGED <<inputs, codecv, caller, ctxvars, fwaker, result, waker, started, arc, pollv, nativev>>

(* a worker that goes on to the wake without having stored the result *)
Worker_store_late(i) ==
  /\ wpc[i] = "store"
  /\ wpc' = [wpc EXCEPT ![i] = "wake"]
  /\ UNCHANGED <<inputs, codecv, caller, ctxvars, fwaker, result, waker, started, arc,
                 pollv, nativev>>

(* PollerContext::poll: receive and decode, *self.result.write().unwrap() = Some(result) *)
Worker_store(i) ==
  /\ wpc[i] = "store"
  /\ \E r \in RecvOutcomes :
       /\ result' = wait_reply(family, r)
       /\ inbox' = AfterRecv(r) /\ lastRecv' = r
  /\ writes' = writes + 1
  /\ wpc' = [wpc EXCEPT ![i] = "wake"]
  /\ UNCHANGED <<inputs, codecv, caller, sock, nonblocking, sockets, sent, sequence, payload, fwaker,
                 waker, started, arc, ppc, cxw, polls, lastPoll, woken, dropped, nativev>>

(* start_poller's thread: *ctx.result.write().unwrap() = Some(Err(e)) *)
Worker_err_store(i) ==
  /\ wpc[i] = "err_store"
  /\ result' = From_io_Error("Other")
  /\ writes' = writes + 1
  /\ wpc' = [wpc EXCEPT ![i] = "err_wake"]
  /\ UNCHANGED <<inputs, codecv, caller, ctxvars, fwaker, waker, started, arc,
                 ppc, cxw, polls, lastPoll, woken, dropped, nativev>>

(* waker.read().unwrap().clone().unwrap().wake(), on either branch *)
Worker_wake(i) ==
  /\ wpc[i] \in {"wake", "err_wake"}
  /\ IF waker = "None"
     THEN /\ wpc' = [wpc EXCEPT ![i] = "panicked"]      \* unwrap of None: the thread dies
          /\ ArcDrop
          /\ UNCHANGED woken
     ELSE /\ wpc' = [wpc EXCEPT ![i] = "clear"]
          /\ woken' = woken \cup {waker}
          /\ UNCHANGED <<arc, sock>>
  /\ UNCHANGED <<inputs, codecv, caller, nonblocking, sockets, sent, sequence, payload, inbox, lastRecv, fwaker,
                 result, waker, started, ppc, cxw, polls, lastPoll, dropped, writes, nativev>>

(* start_poller's thread: ctx.started.store(false), the thread ends and drops ctx *)
Worker_clear(i) ==
  /\ wpc[i] = "clear"
  /\ started' = FALSE
  /\ wpc' = [wpc EXCEPT ![i] = "done"]
  /\ ArcDrop
  /\ UNCHANGED <<inputs, codecv, caller, nonblocking, sockets, sent, sequence, payload, inbox, lastRecv, fwaker,
                 result, waker, pollv, nativev>>

----------------------------------------------------------------------------
(* Native path: windows_ping.rs, ping_common.rs, ping_v4.rs, ping_future.rs *)

Statuses == {0, 5, 11010}        \* status field the OS may write into the reply
WinErrors == {5, 11010}          \* GetLastError() after a failed call

validate_buffer(len) ==
  IF len > MAX_BUFFER_SIZE THEN Res("BadParameter", 0, "buffer") ELSE OkReply

ping_reply_error_le(status_code) ==
  IF status_code <= IP_STATUS_BASE THEN Res("OsError", status_code, "os")
                                   ELSE Res("IpError", status_code, "")

ping_reply_error(status_code) ==
  IF status_code < IP_STATUS_BASE THEN Res("OsError", status_code, "os")
                                  ELSE Res("IpError", status_code, "")

parse_raw_reply_status(status) ==
  IF status = 0 THEN OkReply
  ELSE LET e == ping_reply_error(status) IN
       IF e.tag = "OsError" THEN e
       ELSE IF e.tag = "IpError"
            THEN IF e.code = 0 THEN OkReply ELSE ping_reply_error(e.code)
            ELSE Res("Panic", 0, "Dev bug!")

(* echo / echo_v4: the IP_OPTION_INFORMATION built from the caller's options *)
IP_OPTION_INFORMATION_flagged(o) ==
  [Ttl   |-> IF o.some THEN o.ttl ELSE 128,
   Flags |-> IF o.some THEN DONT_FRAGMENT_FLAG ELSE 0,
   built |-> TRUE]

IP_OPTION_INFORMATION(o) ==
  [Ttl   |-> IF o.some THEN o.ttl ELSE 128,
   Flags |-> IF o.some /\ o.dont_fragment THEN DONT_FRAGMENT_FLAG ELSE 0,
   built |-> TRUE]

(* echo / echo_v4: the value of IcmpSendEcho2 (0 = failed) and GetLastError *)
echo(error, win_err, status) ==
  IF error = 0
  THEN IF win_err = ERROR_IO_PENDING THEN IoPending ELSE ping_reply_error(win_err)
  ELSE parse_raw_reply_status(status)

(* what the native send can do: complete at once, fail, or (only with a    *)
(* wait event) stay outstanding                                            *)
EchoOutcomes(event) ==
  {[error |-> 1, win_err |-> 0, status |-> st] : st \in Statuses}
  \cup {[error |-> 0, win_err |-> e, status |-> 0] : e \in WinErrors}
  \cup (IF event THEN {[error |-> 0, win_err |-> ERROR_IO_PENDING, status |-> 0]} ELSE {})

Acquire(r) == acq' = [acq EXCEPT ![r] = @ + 1]

(* send_ping / send_ping_async: validate_buffer, initialize_icmp_handle *)
Native_start ==
  /\ variant \in NativeVariants /\ pc = "start"
  /\ LET v == validate_buffer(dataLen) IN
     IF v.tag # "Ok"
     THEN /\ ret' = v /\ pc' = "returned" /\ UNCHANGED <<handle, acq>>
     ELSE \E created \in BOOLEAN, e \in WinErrors :
            IF created
            THEN /\ handle' = "open" /\ Acquire("icmp")
                 /\ pc' = IF variant = "native_sync" THEN "have_handle" ELSE "future"
                 /\ UNCHANGED ret
            ELSE /\ ret' = IF variant = "native_sync" THEN ping_reply_error(e)
                                                     ELSE Panicked     \* .unwrap()
                 /\ pc' = IF variant = "native_sync" THEN "returned" ELSE "panicked"
                 /\ UNCHANGED <<handle, acq>>
  /\ UNCHANGED <<inputs, codecv, ctxvars, fwaker, pollerv, pollv, ping_event, event_registration,
                 nwaker, reply_buffer, outstanding, signaled, cbFired, rel, released>>

(* send_ping: echo(.., None, ..)?, create_raw_reply(reply).into(); PingHandle dropped *)
Native_send_ping ==
  /\ variant = "native_sync" /\ pc = "have_handle"
  /\ sent' = sent + 1
  /\ \E o \in EchoOutcomes(FALSE) :
       /\ ret' = echo(o.error, o.win_err, o.status)
       /\ reply_buffer' = o.status
  /\ pc' = "returned"
  /\ handle' = "closed" /\ rel' = [rel EXCEPT !["icmp"] = @ + 1]
  /\ released' = Append(released, "icmp")
  /\ UNCHANGED <<inputs, codecv, sock, nonblocking, sockets, sequence, payload, inbox, lastRecv, fwaker,
                 pollerv, pollv, ping_event, event_registration, nwaker,
                 outstanding, signaled, cbFired, acq>>

(* Drop for FutureEchoReplyAsyncState: CloseHandle(ping_event), then       *)
(* UnregisterWait(event_registration); after it the field PingHandle is    *)
(* dropped: IcmpCloseHandle                                                *)
DropOrder(event, wait) ==
  (IF event THEN <<"event">> ELSE <<>>) \o (IF wait THEN <<"wait">> ELSE <<>>) \o <<"icmp">>

Native_drop ==
  /\ released' = released \o DropOrder(ping_event # "invalid", event_registration # "invalid")
  /\ ping_event' = "invalid"
  /\ event_registration' = "invalid"
  /\ handle' = "closed"
  /\ rel' = [rel EXCEPT !["event"] = IF ping_event # "invalid" THEN @ + 1 ELSE @,
                        !["wait"]  = IF event_registration # "invalid" THEN @ + 1 ELSE @,
                        !["icmp"]  = @ + 1]

(* the guard of the first-poll block: self.ping_event.is_invalid() *)
is_invalid_always(h) == TRUE

is_invalid(h) == h = "invalid"

(* poll, first part: register_event and the send when no event exists yet *)
Native_poll_begin ==
  /\ variant = "native_async" /\ pc = "future" /\ ppc = "idle" /\ polls < MaxPolls
  /\ polls' = polls + 1
  /\ \E w \in Wakers, reg \in {"ok", "event_fails", "wait_fails"}, o \in EchoOutcomes(TRUE) :
       /\ cxw' = w /\ woken' = woken \ {w}
       /\ IF ~is_invalid(ping_event)
          THEN /\ ppc' = "check"
               /\ UNCHANGED <<caller, sent, lastPoll, handle, ping_event, event_registration,
                              reply_buffer, outstanding, acq, rel, released>>
          ELSE IF reg = "event_fails"           \* CreateEventA(..).unwrap()
          THEN /\ ret' = Panicked /\ pc' = "panicked" /\ Native_drop
               /\ UNCHANGED <<ppc, sent, lastPoll, reply_buffer, outstanding, acq>>
          ELSE IF reg = "wait_fails"            \* assert!(result.as_bool())
          THEN /\ ret' = Panicked /\ pc' = "panicked" /\ Native_drop
               /\ Acquire("event")
               /\ UNCHANGED <<ppc, sent, lastPoll, reply_buffer, outstanding>>
          ELSE IF family = "v6"                 \* todo!() after register_event
          THEN /\ ret' = Panicked /\ pc' = "panicked"
               /\ acq' = [acq EXCEPT !["event"] = @ + 1, !["wait"] = @ + 1]
               /\ ping_event' = "invalid" /\ event_registration' = "invalid"
               /\ handle' = "closed"
               /\ rel' = [rel EXCEPT !["event"] = @ + 1, !["wait"] = @ + 1, !["icmp"] = @ + 1]
               /\ released' = released \o DropOrder(TRUE, TRUE)
               /\ UNCHANGED <<ppc, sent, lastPoll, reply_buffer, outstanding>>
          ELSE LET res == echo(o.error, o.win_err, o.status) IN
               /\ acq' = [acq EXCEPT !["event"] = @ + 1, !["wait"] = @ + 1]
               /\ sent' = sent + 1
               /\ IF res = IoPending
                  THEN /\ ping_event' = "valid" /\ event_registration' = "valid"
                       /\ outstanding' = TRUE /\ ppc' = "check"
                       /\ UNCHANGED <<caller, lastPoll, handle, reply_buffer, rel, released>>
                  ELSE /\ ret' = res /\ pc' = "returned" /\ lastPoll' = "Ready"
                       /\ reply_buffer' = o.status
                       /\ ping_event' = "invalid" /\ event_registration' = "invalid"
                       /\ handle' = "closed"
                       /\ rel' = [rel EXCEPT !["event"] = @ + 1, !["wait"] = @ + 1,
                                             !["icmp"] = @ + 1]
                       /\ released' = released \o DropOrder(TRUE, TRUE)
                       /\ UNCHANGED <<ppc, outstanding>>
  /\ UNCHANGED <<inputs, codecv, sock, nonblocking, sockets, sequence, payload, inbox, lastRecv, fwaker,
                 pollerv, dropped, writes, nwaker, signaled, cbFired>>

(* a poll that decodes the reply buffer without looking at the event *)
Native_poll_check_unchecked ==
  /\ variant = "native_async" /\ ppc = "check"
  /\ \E failed \in BOOLEAN :
       IF failed                                  \* WAIT_FAILED
       THEN /\ ret' = Res("OsError", 6, "Wait event failed")
            /\ pc' = "returned" /\ lastPoll' = "Ready" /\ ppc' = "idle" /\ Native_drop
       ELSE IF TRUE                               \* WAIT_OBJECT_0
       THEN /\ ret' = parse_raw_reply_status(reply_buffer)
            /\ pc' = "returned" /\ lastPoll' = "Ready" /\ ppc' = "idle" /\ Native_drop
       ELSE /\ ppc' = "store_waker"               \* WAIT_TIMEOUT
            /\ UNCHANGED <<caller, lastPoll, handle, ping_event, event_registration, rel, released>>
  /\ UNCHANGED <<inputs, codecv, ctxvars, fwaker, pollerv, cxw, polls, woken, dropped, writes,
                 nwaker, reply_buffer, outstanding, signaled, cbFired, acq>>

(* poll: WaitForSingleObject(self.ping_event, 0) and the match on its state *)
Native_poll_check ==
  /\ variant = "native_async" /\ ppc = "check"
  /\ \E failed \in BOOLEAN :
       IF failed                                  \* WAIT_FAILED
       THEN /\ ret' = Res("OsError", 6, "Wait event failed")
            /\ pc' = "returned" /\ lastPoll' = "Ready" /\ ppc' = "idle" /\ Native_drop
       ELSE IF signaled                           \* WAIT_OBJECT_0
       THEN /\ ret' = parse_raw_reply_status(reply_buffer)
            /\ pc' = "returned" /\ lastPoll' = "Ready" /\ ppc' = "idle" /\ Native_drop
       ELSE /\ ppc' = "store_waker"               \* WAIT_TIMEOUT
            /\ UNCHANGED <<caller, lastPoll, handle, ping_event, event_registration, rel, released>>
  /\ UNCHANGED <<inputs, codecv, ctxvars, fwaker, pollerv, cxw, polls, woken, dropped, writes,
                 nwaker, reply_buffer, outstanding, signaled, cbFired, acq>>

(* poll, WAIT_TIMEOUT arm: *addr = Some(cx.waker().clone()); Poll::Pending *)
Native_poll_store_waker ==
  /\ variant = "native_async" /\ ppc = "store_waker"
  /\ nwaker' = cxw /\ ppc' = "idle" /\ lastPoll' = "Pending"
  /\ UNCHANGED <<inputs, codecv, caller, ctxvars, fwaker, pollerv, cxw, polls, woken, dropped, writes,
                 handle, ping_event, event_registration, reply_buffer, outstanding,
                 signaled, cbFired, acq, rel, released>>

(* the caller drops the future before it completed *)
Native_cancel ==
  /\ variant = "native_async" /\ pc = "future" /\ ppc = "idle"
  /\ pc' = "dropped" /\ dropped' = TRUE /\ Native_drop
  /\ UNCHANGED <<inputs, codecv, ret, ctxvars, fwaker, pollerv, ppc, cxw, polls, lastPoll, woken,
                 writes, nwaker, reply_buffer, outstanding, signaled, cbFired, acq>>

(* the OS completes the outstanding echo: reply written in place, event set *)
OS_complete ==
  /\ variant = "native_async" /\ outstanding
  /\ \E st \in Statuses : reply_buffer' = st
  /\ outstanding' = FALSE
  /\ signaled' = (ping_event = "valid")
  /\ UNCHANGED <<inputs, codecv, caller, ctxvars, fwaker, pollerv, pollv, handle, ping_event,
                 event_registration, nwaker, cbFired, acq, rel, released>>

(* reply_callback, run once by the thread pool when the event is signaled *)
OS_reply_callback ==
  /\ variant = "native_async" /\ signaled /\ ~cbFired /\ event_registration = "valid"
  /\ cbFired' = TRUE
  /\ woken' = IF nwaker # "None" THEN woken \cup {nwaker} ELSE woken
  /\ UNCHANGED <<inputs, codecv, caller, ctxvars, fwaker, pollerv, ppc, cxw, polls, lastPoll,
                 dropped, writes, handle, ping_event, event_registration, nwaker,
                 reply_buffer, outstanding, signaled, acq, rel, released>>

----------------------------------------------------------------------------
(* The system *)

WorkerStep ==
  \E i \in Workers :
    \/ Worker_setup(i)
    \/ Worker_wait_readable(i)
    \/ Worker_store(i)
    \/ Worker_err_store(i)
    \/ Worker_wake(i)
    \/ Worker_clear(i)

WorkerFails == \E i \in Workers : Worker_wait_error(i)

CallerStep ==
  \/ PingContext_new
  \/ SetNonblocking
  \/ PingContext_ping
  \/ SendPing_wait_reply
  \/ Native_start
  \/ Native_send_ping

PollInFlight ==
  \/ Poll_set_waker
  \/ Poll_start_poller
  \/ Native_poll_check
  \/ Native_poll_store_waker

Next ==
  \/ CallerStep
  \/ PollInFlight
  \/ WorkerStep
  \/ WorkerFails
  \/ Arrive
  \/ InlinePoll
  \/ InlineDrop
  \/ Poll_read
  \/ PollerDrop
  \/ Native_poll_begin
  \/ Native_cancel
  \/ OS_complete
  \/ OS_reply_callback

Spec == Init /\ [][Next]_vars

(* Threads that can run do run: the caller inside a call or a poll, the    *)
(* worker thread, the OS completing the native echo and its callback.      *)
(* Nothing obliges a datagram to arrive, a system call to fail, the        *)
(* executor to poll again or the caller to drop the future.                *)
FairSpec ==
  /\ Spec
  /\ WF_vars(CallerStep)
  /\ WF_vars(PollInFlight)
  /\ WF_vars(WorkerStep)
  /\ WF_vars(OS_complete)
  /\ WF_vars(OS_reply_callback)

----------------------------------------------------------------------------
(* The encoding functions on their own: make_data, set_request_data and    *)
(* the header accessors applied to payloads of every length 0..25 and to   *)
(* sample field values.  payload is the buffer, before is the buffer       *)
(* before the last step, op names that step and its argument.              *)

CodecPayloads ==
  UNION {{[i \in 1..n |-> (i * 37 + n) % 256], [i \in 1..n |-> 255]} : n \in 0..(TOKEN_SIZE + 1)}
U16Samples      == {0, 1, 255, 256, 4660, 43981, 65280, 65535}
SeqSamples      == {1, 65535}
CodecTimestamps == Timestamps \cup {<<64, 24, 0, 0, 0, 0, 0, 0>>}
Fields          == {"checksum", "ident", "seq"}

StatusSamples   == {0, 1, 5, 10999, 11000, 11001, 11010, 11050, 65535, 2147483647}
OptionSamples   ==
  {NoOptions} \cup {[some |-> TRUE, ttl |-> t, dont_fragment |-> d] : t \in {0, 1, 64, 128, 255}, d \in BOOLEAN}
CodecVariants   == {"codec", "classify", "pings", "options", "decode"}

(* Received buffers handed to get_reply_header: their length, byte 0      *)
(* (version nibble and header length in 32-bit words) and protocol byte   *)
ReplyLens       == {0, 15, 16, 35, 36, 40, 60}
ReplyByte0      == {5, 69, 70, 79, 101}
ReplyProtocols  == {1, 17}
ReplyBuffer(n, b0, pr) ==
  [i \in 1..n |-> IF i = 1 THEN b0 ELSE IF i = 10 THEN pr ELSE 0]

CodecInit ==
  /\ variant \in CodecVariants
  /\ family \in (IF variant \in {"codec", "pings", "decode"} THEN Families ELSE {"v4"})
  /\ timeout = 1
  /\ options \in (IF variant = "options" THEN OptionSamples ELSE {NoOptions})
  /\ data \in (IF variant = "codec" THEN CodecPayloads
                ELSE IF variant = "pings" THEN {<<1, 2, 3, 4>>} ELSE {<<>>})
  /\ dataLen = Len(data)
  /\ Idle

codecRest == <<variant, family, timeout, data, dataLen, options, sock, nonblocking, sockets,
               sent, inbox, lastRecv, fwaker, pollerv, pollv, nativev, ip_options>>

(* make_data::<P>(data) *)
Codec_make_data ==
  /\ variant \in {"codec", "pings"} /\ pc = "start"
  /\ LET p == make_data(family, data) IN
       IF p.ok THEN /\ payload' = p.buf /\ pc' = "encoded" /\ UNCHANGED ret
               ELSE /\ ret' = p.err /\ pc' = "returned" /\ UNCHANGED payload
  /\ before' = payload /\ op' = [name |-> "make_data", v |-> 0, ts |-> <<>>]
  /\ UNCHANGED <<codecRest, sequence, issued>>

(* set_request_data(&mut payload, ident, sequence) *)
Codec_set_request_data ==
  /\ variant = "codec" /\ pc = "encoded"
  /\ \E s \in SeqSamples, ts \in CodecTimestamps :
       /\ payload' = set_request_data(payload, ProcessId, s, ts)
       /\ sequence' = s
       /\ op' = [name |-> "set_request_data", v |-> s, ts |-> ts]
  /\ before' = payload /\ pc' = "requested"
  /\ UNCHANGED <<codecRest, ret, issued>>

(* header.set_checksum(v) / set_ident(v) / set_seq(v) *)
Codec_set_field ==
  /\ variant = "codec" /\ pc \in {"encoded", "requested"}
  /\ \E f \in Fields, v \in U16Samples :
       /\ payload' = CASE f = "checksum" -> set_checksum(payload, v)
                       [] f = "ident"    -> set_ident(payload, v)
                       [] f = "seq"      -> set_seq(payload, v)
       /\ op' = [name |-> f, v |-> v, ts |-> <<>>]
  /\ before' = payload /\ pc' = "field_set"
  /\ UNCHANGED <<codecRest, ret, sequence, issued>>

(* header.set_timestamp(ts) *)
Codec_set_timestamp ==
  /\ variant = "codec" /\ pc \in {"encoded", "requested"}
  /\ \E ts \in CodecTimestamps :
       /\ payload' = set_timestamp(payload, ts)
       /\ op' = [name |-> "timestamp", v |-> 0, ts |-> ts]
  /\ before' = payload /\ pc' = "field_set"
  /\ UNCHANGED <<codecRest, ret, sequence, issued>>

(* parse_raw_reply_status(status) on a status the reply may carry *)
Codec_parse_raw_reply_status ==
  /\ variant = "classify" /\ pc = "start"
  /\ \E st \in StatusSamples :
       /\ reply_buffer' = st
       /\ ret' = parse_raw_reply_status(st)
  /\ pc' = "returned"
  /\ UNCHANGED <<inputs, codecv, ctxvars, fwaker, pollerv, pollv, handle, ping_event,
                 event_registration, nwaker, outstanding, signaled, cbFired, acq, rel, released>>

(* PingContext::ping called again on the same context: the counter, the    *)
(* packet, and whether send_to succeeded                                   *)
Codec_ping ==
  /\ variant = "pings" /\ pc = "encoded" /\ Len(issued) < MaxPings
  /\ sequence' = next_sequence(sequence)
  /\ \E ts \in Timestamps : payload' = set_request_data(payload, ProcessId, sequence', ts)
  /\ \E o \in {"ok", "Other"} :
       /\ issued' = Append(issued, [seq |-> seq(payload'), ok |-> (o = "ok")])
       /\ ret' = IF o = "ok" THEN OkReply ELSE From_io_Error(o)
  /\ before' = payload /\ op' = [name |-> "ping", v |-> sequence', ts |-> <<>>]
  /\ UNCHANGED <<codecRest, pc>>

(* echo: the option block handed to the native send *)
Codec_echo_options ==
  /\ variant = "options" /\ pc = "start"
  /\ ip_options' = IP_OPTION_INFORMATION(options)
  /\ pc' = "returned"
  /\ UNCHANGED <<inputs, ret, ctxvars, fwaker, pollerv, pollv, nativev, before, op, issued>>

(* P::get_reply_header(&reply_buffer[..size]) on a received buffer *)
Codec_get_reply_header ==
  /\ variant = "decode" /\ pc = "start"
  /\ \E n \in ReplyLens, b0 \in ReplyByte0, pr \in ReplyProtocols :
       LET reply == ReplyBuffer(n, b0, pr)
           h     == get_reply_header(family, reply)
       IN  /\ payload' = reply
           /\ ret' = h.res
           /\ op' = [name |-> "get_reply_header", v |-> h.offset, ts |-> <<>>]
  /\ pc' = "returned"
  /\ UNCHANGED <<codecRest, sequence, before, issued>>

CodecNext ==
  \/ Codec_parse_raw_reply_status
  \/ Codec_get_reply_header
  \/ Codec_echo_options
  \/ Codec_ping
  \/ Codec_make_data
  \/ Codec_set_request_data
  \/ Codec_set_field
  \/ Codec_set_timestamp

CodecSpec == CodecInit /\ [][CodecNext]_vars

----------------------------------------------------------------------------
(* Properties *)

Ended == pc \in {"returned", "dropped", "panicked"}

(* C1: the value returned to the caller of send_ping or of a completed     *)
(* send_ping_async is never the internal IoPending signal.                 *)
C1_NeverReturnsIoPending == ret.tag # "IoPending"

(* C2: native asynchronous path, no lost wakeup: there is no state in      *)
(* which the event is signaled, the one-shot callback has already fired,   *)
(* the poll has stored a waker and returned Pending, and that waker has    *)
(* not been woken since the poll that stored it began.                     *)
C2_NativeNoLostWakeup ==
  ~ ( /\ variant = "native_async" /\ pc = "future" /\ ppc = "idle"
      /\ lastPoll = "Pending" /\ signaled /\ cbFired
      /\ nwaker # "None" /\ nwaker \notin woken )

(* C3: raw-socket asynchronous path, no lost wakeup: once the worker has   *)
(* stored a result and performed its wake, the waker registered by the     *)
(* last poll that returned Pending has been woken since that poll began,   *)
(* also when successive polls register different wakers.                   *)
C3_RawNoLostWakeup ==
  ( /\ variant = "raw_poller" /\ pc = "sent" /\ ppc = "idle"
    /\ lastPoll = "Pending" /\ result # NoneR
    /\ \A i \in Workers : wpc[i] \notin {"wake", "err_wake"} )
  => waker \in woken

(* C4: raw-socket asynchronous path, liveness: an operation that returned  *)
(* Pending eventually has a result (the reply, or TimedOut when no reply   *)
(* arrives), unless the caller drops it.                                   *)
C4_PendingEventuallyCompletes ==
  (variant = "raw_poller" /\ lastPoll = "Pending") ~> (result # NoneR \/ dropped)

(* C5: single-flight: never more than one worker thread active at a time   *)
(* on the raw-socket path, and never more than one wait event, one wait    *)
(* registration and one echo send on the native path.                      *)
C5_SingleFlight ==
  /\ Cardinality(ActiveWorkers) <= 1
  /\ variant = "native_async" => (acq["event"] <= 1 /\ acq["wait"] <= 1 /\ sent <= 1)

C5_Witness ==
  /\ variant = "raw_poller" /\ polls >= 2 /\ ppc = "idle" /\ lastPoll = "Pending"
  /\ Cardinality(ActiveWorkers) = 1 /\ started

(* C6: the shared result slot of the raw-socket path goes from None to     *)
(* Some at most once per operation and is never written again.             *)
C6_ResultWrittenOnce == writes <= 1

(* C7: resource release on the raw-socket path: after the call has ended   *)
(* (returned, or the future was dropped) the socket it created is          *)
(* eventually closed.                                                      *)
C7_SocketEventuallyClosed ==
  (variant \in RawVariants /\ Ended) ~> (sock # "open")

(* C8: resource release on the native path: once the call has ended, the   *)
(* ICMP handle, the wait event and the wait registration have each been    *)
(* released exactly as often as they were acquired, at most once, and      *)
(* nothing is ever released that was not acquired.                         *)
C8_NativeReleasedExactlyOnce ==
  variant \in NativeVariants =>
    \A r \in {"icmp", "event", "wait"} :
      /\ rel[r] <= acq[r] /\ acq[r] <= 1
      /\ Ended => rel[r] = acq[r]

(* C9: one call issues exactly one echo request: the request is handed to  *)
(* the transport at most once, exactly once when the operation is pending  *)
(* or has produced a reply, however often the future is polled.            *)
C9_OneEchoRequest ==
  /\ sent <= 1
  /\ (lastPoll = "Pending" \/ pc = "sent" \/ ret.tag = "Ok") => sent = 1

C9_Witness ==
  /\ variant = "native_async" /\ polls >= 2 /\ lastPoll = "Pending" /\ ppc = "idle"
  /\ sent = 1 /\ outstanding

(* C10: raw-socket path: a timeout of zero yields BadParameter("timeout")  *)
(* with no socket created and no packet sent; every positive timeout       *)
(* passes the validation.                                                  *)
C10_ZeroTimeoutRejected ==
  (variant \in RawVariants /\ pc # "start") =>
    /\ timeout = 0 => ( /\ ret = Res("BadParameter", 0, "timeout") /\ pc = "returned"
                        /\ sockets = 0 /\ sent = 0 /\ sock = "none" )
    /\ timeout > 0 => ~(ret.tag = "BadParameter" /\ ret.msg = "timeout")

C10_Witness ==
  /\ variant \in RawVariants /\ timeout = 0 /\ pc = "returned"
  /\ ret = Res("BadParameter", 0, "timeout")

(* C11: native path: a timeout of zero is rejected with BadParameter before *)
(* any ICMP handle is created and before any echo is sent, by send_ping    *)
(* and by send_ping_async.                                                 *)
C11_NativeZeroTimeoutRejected ==
  (variant \in NativeVariants /\ timeout = 0 /\ pc # "start") =>
    ( /\ ret.tag = "BadParameter" /\ pc = "returned"
      /\ acq["icmp"] = 0 /\ sent = 0 )

C13_NativeOversizedPayload ==
  (variant \in NativeVariants /\ pc # "start") =>
    /\ dataLen > MAX_BUFFER_SIZE =>
         ( /\ ret = Res("DataSizeTooBig", MAX_BUFFER_SIZE, "") /\ pc = "returned"
           /\ acq["icmp"] = 0 /\ sent = 0 )
    /\ dataLen <= MAX_BUFFER_SIZE => ret.tag \notin {"DataSizeTooBig", "BadParameter"}

(* C14: a call that fails in parameter validation or in acquiring its      *)
(* transport (socket, ICMP handle) returns an Err value to the caller, on  *)
(* both paths and for send_ping and send_ping_async, with no packet sent;  *)
(* in particular it does not abort when the native ICMP handle cannot be   *)
(* created in send_ping_async.                                             *)
C14_EarlyFailuresReturned ==
  LET failedEarly ==
        \/ variant \in RawVariants /\ pc \in {"returned", "panicked"} /\ sent = 0
        \/ variant \in NativeVariants /\ pc # "start" /\ acq["icmp"] = 0
  IN  failedEarly =>
        ( /\ pc = "returned" /\ sent = 0
          /\ ret.tag \in {"BadParameter", "DataSizeTooBig", "OsError", "IpError"} )

(* C15: synchronous variant of the raw-socket path: when the single        *)
(* receive of send_ping ends because the receive timeout elapsed (the      *)
(* socket reports would-block), send_ping returns TimedOut and not the     *)
(* internal pending signal.                                                *)
C15_SyncTimeoutIsTimedOut ==
  (variant = "raw_sync" /\ pc = "returned" /\ lastRecv.kind = "WouldBlock") =>
    ret.tag = "TimedOut"

(* C16: result before wake on the raw-socket path: a worker that is about  *)
(* to wake the waker, or has woken it, on the readiness branch or on the   *)
(* error branch, has already stored the result in the shared slot; hence   *)
(* whenever a wake-up has been delivered the slot is not empty.            *)
C16_ResultBeforeWake ==
  variant = "raw_poller" =>
    /\ \A i \in Workers : wpc[i] \in {"wake", "err_wake", "clear"} => result # NoneR
    /\ woken # {} => result # NoneR

C16_Witness ==
  /\ variant = "raw_poller" /\ woken # {} /\ result = OkReply
  /\ \E i \in Workers : wpc[i] = "clear"

(* C17: the request packet handed to the socket carries a valid Internet   *)
(* checksum: its checksum field is the one's complement of the folded sum  *)
(* of its 16-bit big-endian words taken with the checksum field zero, so   *)
(* the folded sum of all its words with the checksum in place is 0xFFFF.   *)
C17_SentChecksumValid ==
  (variant \in RawVariants /\ sent >= 1) =>
    /\ checksum(payload) = 65535 - Fold(WordSum(set_checksum(payload, 0), 1))
    /\ Fold(WordSum(payload, 1)) = 65535

(* C18: request encoding preserves the payload: for every payload of n <=  *)
(* 24 bytes and each protocol family make_data returns a buffer of 16 + n  *)
(* bytes whose bytes from offset 16 on are the payload, with type/code 8/0 *)
(* for v4 and 128/0 for v6; set_request_data afterwards leaves the         *)
(* payload bytes, the length and type/code as they were.                   *)
C18_EncodingPreservesPayload ==
  (variant = "codec" /\ Len(data) <= TOKEN_SIZE /\ pc # "start") =>
    /\ pc # "returned"
    /\ op.name \in {"make_data", "set_request_data"} =>
         /\ Len(payload) = 16 + Len(data)
         /\ \A i \in 1..Len(data) : payload[16 + i] = data[i]
         /\ payload[1] = (IF family = "v4" THEN 8 ELSE 128)
         /\ payload[2] = 0

C18_Witness ==
  /\ variant = "codec" /\ op.name = "set_request_data" /\ Len(data) = 7
  /\ Len(payload) = 23 /\ payload[17] = data[1] /\ payload[23] = data[7]
  /\ payload # before

(* C19: the header accessors are a big-endian round trip at fixed offsets: *)
(* after set_checksum / set_ident / set_seq with a value v the getter      *)
(* returns v and the two bytes at offsets 2..4 / 4..6 / 6..8 hold v high   *)
(* byte first; the timestamp occupies bytes 8..16; type and code are bytes *)
(* 0 and 1; setting one field leaves all other bytes of the buffer as they *)
(* were.                                                                   *)
C19_HeaderAccessorsRoundTrip ==
  variant = "codec" =>
    /\ op.name \in Fields =>
         LET off == CASE op.name = "checksum" -> 2
                      [] op.name = "ident"    -> 4
                      [] op.name = "seq"      -> 6
             got == CASE op.name = "checksum" -> checksum(payload)
                      [] op.name = "ident"    -> ident(payload)
                      [] op.name = "seq"      -> seq(payload)
         IN  /\ got = op.v
             /\ payload[off + 1] = op.v \div 256 /\ payload[off + 2] = op.v % 256
             /\ Len(payload) = Len(before)
             /\ \A i \in 1..Len(payload) : i \notin {off + 1, off + 2} => payload[i] = before[i]
    /\ op.name = "timestamp" =>
         /\ timestamp(payload) = op.ts
         /\ \A i \in 1..8 : payload[8 + i] = op.ts[i]
         /\ Len(payload) = Len(before)
         /\ \A i \in 1..Len(payload) : i \notin 9..16 => payload[i] = before[i]
    /\ (op.name = "make_data" /\ pc = "encoded") =>
         /\ payload[1] = ECHO_REQUEST_TYPE(family) /\ payload[2] = ECHO_REQUEST_CODE(family)

C19_Witness ==
  /\ variant = "codec" /\ op = [name |-> "ident", v |-> 4660, ts |-> <<>>]
  /\ payload[5] = 18 /\ payload[6] = 52 /\ ident(payload) = 4660
  /\ before[5] = 0 /\ checksum(payload) = checksum(before) /\ checksum(payload) # 0

(* C20: header mismatch on the raw-socket path: a received reply whose     *)
(* type or code differs from the reply values of the protocol family (v4:  *)
(* type 0 / code 0, v6: type 129 / code 0) is decoded as                   *)
(* IpError(BadHeader); the outcome is Ok only when both match.  The        *)
(* decoded outcome is the value returned by send_ping and by the inline    *)
(* poll, and the value the worker stores in the result slot.               *)
C20_HeaderMismatchIsBadHeader ==
  LET matches == /\ lastRecv.kind = "data"
                 /\ lastRecv.d.type = (IF family = "v4" THEN 0 ELSE 129)
                 /\ lastRecv.d.code = 0
      decoded == IF variant = "raw_poller" THEN result ELSE ret
      settled == IF variant = "raw_poller" THEN \E i \in Workers : wpc[i] = "wake"
                                           ELSE pc = "returned"
  IN  variant \in RawVariants =>
        /\ (settled /\ lastRecv.kind = "data") =>
             decoded = (IF matches THEN OkReply ELSE Res("IpError", BadHeader, ""))
        /\ decoded.tag = "Ok" => matches

C20_Witness ==
  /\ variant = "raw_sync" /\ family = "v4" /\ pc = "returned"
  /\ lastRecv = [kind |-> "data", d |-> [type |-> 0, code |-> 1, size |-> 16,
                                          ident |-> 4660, seq |-> 1]]
  /\ ret = Res("IpError", BadHeader, "")

C22_SequenceNumbers ==
  variant = "pings" =>
    /\ \A k \in 1..Len(issued) : issued[k].seq = k
    /\ sequence = Len(issued)
    /\ Len(issued) >= 1 => seq(payload) = Len(issued)

C22_Witness ==
  /\ variant = "pings" /\ Len(issued) = MaxPings
  /\ ~issued[2].ok /\ issued[3].seq = 3 /\ issued[MaxPings].seq = MaxPings

(* C23: native transmission options: the IP option block passed to the     *)
(* native send has Ttl = options.ttl when options are present and 128 when *)
(* absent, and Flags = 2 (don't fragment) exactly when options are present *)
(* with dont_fragment = true, 0 otherwise.                                 *)
C23_NativeOptionDefaults ==
  (variant = "options" /\ pc = "returned") =>
    /\ ip_options.built
    /\ ip_options.Ttl = (IF options.some THEN options.ttl ELSE 128)
    /\ ip_options.Flags \in {0, 2}
    /\ ip_options.Flags = 2 <=> (options.some /\ options.dont_fragment)

C23_Witness ==
  /\ variant = "options" /\ pc = "returned"
  /\ options = [some |-> TRUE, ttl |-> 64, dont_fragment |-> FALSE]
  /\ ip_options = [Ttl |-> 64, Flags |-> 0, built |-> TRUE]

(* C24: raw-socket asynchronous path: the socket is switched to            *)
(* non-blocking mode before the request is sent: whenever a send has been  *)
(* attempted set_nonblocking(true) has succeeded, and a call that ends     *)
(* without the switch having succeeded has sent nothing and returned an    *)
(* error.                                                                  *)
C24_NonblockingBeforeSend ==
  variant \in {"raw_inline", "raw_poller"} =>
    /\ sent >= 1 => nonblocking
    /\ pc \in {"nonblocking_set", "sent"} => nonblocking
    /\ (Ended /\ ~nonblocking) =>
         ( /\ sent = 0 /\ pc = "returned"
           /\ ret.tag \in {"BadParameter", "DataSizeTooBig", "OsError"} )

C24_Witness ==
  /\ variant \in {"raw_inline", "raw_poller"} /\ pc = "returned" /\ ~nonblocking
  /\ sockets = 1 /\ sock = "closed" /\ sent = 0 /\ ret.tag = "OsError"
  /\ Len(payload) = ICMP_HEADER_SIZE + Len(data)      \* the context existed: the switch failed

(* the step in which a poll returns Poll::Pending, and what is in place    *)
(* to wake the stored waker                                                *)
ReturnsPending ==
  \/ variant = "raw_inline" /\ polls' = polls + 1 /\ lastPoll' = "Pending"
  \/ variant = "raw_poller" /\ ppc = "start_poller" /\ ppc' = "idle"
  \/ variant = "native_async" /\ ppc = "store_waker" /\ ppc' = "idle"

Armed ==
  CASE variant = "raw_inline" ->
         fwaker # "None" /\ \E i \in Workers : Active(i) /\ wpc[i] # "clear"
    [] variant = "raw_poller" ->
         waker # "None" /\ \E i \in Workers : Active(i) /\ wpc[i] # "clear"
    [] variant = "native_async" ->
         nwaker # "None" /\ ping_event = "valid" /\ event_registration = "valid"
    [] OTHER -> TRUE

(* C25: Pending implies armed: at every step in which a poll returns       *)
(* Pending, a waker is stored and a completion-detection mechanism that    *)
(* will wake it is in place: on the raw-socket path a worker thread that   *)
(* has still to perform its wake, on the native path the wait event with   *)
(* its callback registered.                                                *)
C25_PendingImpliesArmed == [][ReturnsPending => Armed']_vars

(* C26: native path: when an in-flight operation is dropped, the wait      *)
(* registration is cancelled before the event it waits on is closed and    *)
(* before the ICMP handle is closed.                                       *)
C26_UnregisterBeforeClose ==
  (variant = "native_async" /\ dropped) =>
    \A i, j \in 1..Len(released) :
      (released[i] = "wait" /\ released[j] \in {"event", "icmp"}) => i < j

(* a step of the native poll that returns Ready with a decoded outcome     *)
DecodesReply ==
  /\ variant = "native_async" /\ pc = "future" /\ pc' = "returned"
  /\ ret'.msg # "Wait event failed"

(* C27: native path: the poll decodes the reply buffer only after the      *)
(* zero-timeout check reported the event signaled, or when the send        *)
(* completed at once; no step of the poll reads the buffer while the echo  *)
(* is still outstanding.                                                   *)
C27_ReplyReadAfterSignal ==
  [][DecodesReply => (~outstanding /\ (ppc = "check" => signaled))]_vars

C27_Witness ==
  /\ variant = "native_async" /\ pc = "returned" /\ polls >= 2 /\ signaled
  /\ ~outstanding /\ reply_buffer = 11010 /\ ret = Res("IpError", 11010, "")

(* worker i has just stored the error of its failed setup or wait          *)
FailureStored(i) == wpc[i] = "err_wake"

(* C28: mid-flight failure on the raw-socket path: when the worker's       *)
(* readiness setup or wait fails, the error is stored as the operation's   *)
(* result exactly once (it is the only store into the slot), the wake that *)
(* follows reaches the stored waker, and from then on a poll finds the     *)
(* error in the slot.                                                      *)
C28_FailureDeliveredOnce ==
  /\ [](variant = "raw_poller" =>
         \A i \in Workers : FailureStored(i) => (result = From_io_Error("Other") /\ writes = 1))
  /\ [][\A i \in Workers : (FailureStored(i) /\ wpc'[i] # wpc[i]) =>
          (wpc'[i] = "clear" /\ waker \in woken' /\ result' = From_io_Error("Other"))]_vars

(* C29: the raw-socket receive path validates the minimum length: a       *)
(* received datagram shorter than the 16-byte echo header is decoded as    *)
(* IpError(BadHeader), and no header field is read from bytes beyond the   *)
(* received size.                                                          *)
C29_ShortDatagramIsBadHeader ==
  LET decoded == IF variant = "raw_poller" THEN result ELSE ret
      settled == IF variant = "raw_poller" THEN \E i \in Workers : wpc[i] = "wake"
                                           ELSE pc = "returned"
  IN  (variant \in RawVariants /\ settled /\ lastRecv.kind = "data"
         /\ lastRecv.d.size < ICMP_HEADER_SIZE) =>
        /\ decoded = Res("IpError", BadHeader, "")
        /\ wait_reply_reads(family, lastRecv.d) <= lastRecv.d.size

(* C30: v4 outer-header validation: Ipv4Addr::get_reply_header returns     *)
(* the inner echo header exactly when the buffer is at least 36 bytes      *)
(* long, the version nibble of byte 0 is 4 and the protocol byte (offset   *)
(* 9) is 1, and IpError(BadHeader) otherwise; the returned echo header     *)
(* starts where the outer IP header ends as given by its header-length     *)
(* field (a count of 32-bit words).                                        *)
C30_V4OuterHeaderValidation ==
  (variant = "decode" /\ family = "v4" /\ pc = "returned") =>
    LET accepted == /\ Len(payload) >= 36
                    /\ payload[1] \div 16 = 4
                    /\ payload[10] = 1
    IN  /\ ret = (IF accepted THEN OkReply ELSE Res("IpError", BadHeader, ""))
        /\ accepted => op.v = 4 * (payload[1] % 16)

(* worker i is at the point where it takes the waker out of the slot *)
TakesWaker(i) == wpc[i] \in {"wake", "err_wake"}

(* C31: every worker thread started by start_poller finds a waker          *)
(* registered: whenever a worker is at the point where it takes the waker  *)
(* (after a readiness event or after a poll error) the slot is non-empty,  *)
(* no worker ever panics on an empty slot, and the worker's step from that *)
(* point leads to the store that clears the started flag.                  *)
C31_WorkerFindsWaker ==
  /\ [](variant = "raw_poller" =>
          \A i \in Workers : /\ TakesWaker(i) => waker # "None"
                             /\ wpc[i] # "panicked")
  /\ [][\A i \in Workers : (TakesWaker(i) /\ wpc'[i] # wpc[i]) => wpc'[i] = "clear"]_vars

C31_Witness ==
  /\ variant = "raw_poller" /\ wpc[2] = "clear" /\ wpc[1] = "done"
  /\ waker # "None" /\ waker \in woken /\ started

(* the thread pool may be running reply_callback: the event is signaled,   *)
(* the wait is registered and its one callback has not finished; the       *)
(* callback reads the waker slot (is_some, clone) without any lock         *)
CallbackReadsWaker ==
  variant = "native_async" /\ signaled /\ ~cbFired /\ event_registration = "valid"

(* the polling thread is in the WAIT_TIMEOUT arm, writing the waker slot   *)
(* through the raw pointer                                                 *)
PollOverwritesWaker ==
  variant = "native_async" /\ ppc = "store_waker"

(* C32: native path: the shared waker slot is never accessed by the OS     *)
(* callback thread and the polling thread at the same time: in no          *)
(* reachable state can reply_callback be reading or cloning the waker      *)
(* while poll is overwriting it.                                           *)
C32_NoConcurrentWakerAccess ==
  ~(CallbackReadsWaker /\ PollOverwritesWaker)

(* C33: a reply is attributed to the request that caused it: on the       *)
(* raw-socket path the outcome is Ok(PingReply) only for a received echo   *)
(* reply whose identifier and sequence number equal those written into    *)
(* the request by this call; a datagram with another identifier or        *)
(* sequence number is not reported as this call's successful reply.       *)
C33_ReplyMatchesRequest ==
  LET decoded == IF variant = "raw_poller" THEN result ELSE ret
  IN  (variant \in RawVariants /\ decoded.tag = "Ok") =>
        /\ lastRecv.kind = "data"
        /\ lastRecv.d.ident = ident(payload)
        /\ lastRecv.d.seq = seq(payload)

====
